---- MODULE Spec2Model ----
(***************************************************************************)
(* Settlement and margin accounting of the router program                  *)
(* (process_execute_cross_slab), the per-position ledger (PositionDetails) *)
(* and the venue's commit_fill, as a state machine.                        *)
(*                                                                         *)
(* Quantities and prices are the program's raw fixed-point integers.  The  *)
(* inputs are small raw values so that every product stays inside TLC's    *)
(* integers; the program constants keep their values.                      *)
(***************************************************************************)
EXTENDS Integers, Sequences, FiniteSets, TLC

\* ------------------------------------------------------------------ bounds
\* Executes on a venue are enabled while the resulting exposure stays within
\* this cap (the program has no such cap; it bounds the state space).
MaxExposure == 3
DeepMaxExposure == 11
MaxLedgerQty == 4
MaxScenarioQty == 30

\* ------------------------------------------------------- program constants
\* Fixed-point scale of prices and quantities.
PRICE_SCALE == 1000000
\* Lamports of margin per raw quantity unit at 1x leverage.
MARGIN_UNIT == 1000
\* Limit-order sanity band, in basis points of the oracle price.
MAX_DEVIATION_BPS == 2000
BPS_DENOM == 10000
\* Only one slab per execute in v0.
V0_SLABS == 1

\* --------------------------------------------------------------- input sets
Venues == {"slabA", "slabB"}
Owner == "alice"
RouterAuthority == "router_pda"
LimitPrices == {50000, 1050000}
OraclePrices == {50000, 1050000}
Leverages == {5, 10}
Quantities == {1, 2, 3}
Sides == {0, 1}
UserDeposits == {700}
DlpDeposits == {0}

\* ------------------------------------------------------------------ helpers
Abs(x) == IF x < 0 THEN -x ELSE x
Min(a, b) == IF a <= b THEN a ELSE b

\* Rust integer division: truncation toward zero (b > 0).
TruncDiv(a, b) == IF a >= 0 THEN a \div b ELSE -((-a) \div b)

NoPosition == [exists |-> FALSE]

\* The signed quantity of a fill of q on a side (0 buys, 1 sells).
SignedBySide(side, q) == IF side = 0 THEN q ELSE -q

\* --------------------------------------------------------- PositionDetails
\* PositionDetails::new
PositionDetailsNew(slab_index, entry_price, initial_qty, timestamp, initial_margin, leverage) ==
    [exists |-> TRUE,
     slab_index |-> slab_index,
     instrument_index |-> 0,
     avg_entry_price |-> entry_price,
     total_qty |-> initial_qty,
     realized_pnl |-> 0,
     total_fees |-> 0,
     trade_count |-> 1,
     last_update_ts |-> timestamp,
     margin_held |-> initial_margin,
     leverage |-> leverage]

\* add_to_position divides by |total_qty + fill_qty|: a zero divisor panics.
AddPanics(pd, fill_qty) == pd.total_qty + fill_qty = 0

\* A faulty add_to_position: takes the fill price as the new average.
add_to_position_last_price(pd, fill_price, fill_qty, fee, timestamp, additional_margin) ==
    [pd EXCEPT !.avg_entry_price = fill_price,
               !.total_qty = pd.total_qty + fill_qty,
               !.total_fees = pd.total_fees + fee,
               !.trade_count = pd.trade_count + 1,
               !.last_update_ts = timestamp,
               !.margin_held = pd.margin_held + additional_margin]

\* PositionDetails::add_to_position
add_to_position(pd, fill_price, fill_qty, fee, timestamp, additional_margin) ==
    LET old_cost == pd.avg_entry_price * Abs(pd.total_qty)
        new_cost == fill_price * Abs(fill_qty)
        total_cost == old_cost + new_cost
        new_qty == pd.total_qty + fill_qty
    IN  [pd EXCEPT !.avg_entry_price = TruncDiv(total_cost, Abs(new_qty)),
                   !.total_qty = new_qty,
                   !.total_fees = pd.total_fees + fee,
                   !.trade_count = pd.trade_count + 1,
                   !.last_update_ts = timestamp,
                   !.margin_held = pd.margin_held + additional_margin]

\* A faulty ReducePnl: no sign flip for a short.
ReducePnlLongOnly(pd, exit_price, qty_closed) ==
    TruncDiv(qty_closed * (exit_price - pd.avg_entry_price), PRICE_SCALE)

\* The realized PnL of closing qty_closed at exit_price (reduce_position).
ReducePnl(pd, exit_price, qty_closed) ==
    LET price_diff == exit_price - pd.avg_entry_price
    IN  IF pd.total_qty > 0
        THEN TruncDiv(qty_closed * price_diff, PRICE_SCALE)
        ELSE TruncDiv((-qty_closed) * price_diff, PRICE_SCALE)

\* A faulty ReduceRelease: releases the whole margin on any close.
ReduceReleaseAll(pd, qty_closed, remaining) == pd.margin_held

\* The margin reduce_position releases.  remaining is total_qty after the
\* close.  total_qty_abs is (remaining +/- qty_closed) cast to u128: for a
\* short the sum is negative and the cast wraps to 2^128 - |sum|, larger than
\* any numerator qty_closed * 1e6, so the proportion is 0.
ReduceRelease(pd, qty_closed, remaining) ==
    LET signed_total == remaining + (IF remaining > 0 THEN qty_closed ELSE -qty_closed)
        proportion == IF signed_total < 0 THEN 0
                      ELSE (qty_closed * PRICE_SCALE) \div signed_total
    IN  IF remaining = 0 THEN pd.margin_held
        ELSE IF signed_total # 0 THEN (pd.margin_held * proportion) \div PRICE_SCALE
        ELSE 0

\* A faulty reduce_position: the record's entry price is moved to the exit
\* price.
reduce_position_reprices(pd, exit_price, reduce_qty, fee, timestamp) ==
    LET qty_closed == Min(Abs(reduce_qty), Abs(pd.total_qty))
        pnl == ReducePnl(pd, exit_price, qty_closed)
        remaining == IF pd.total_qty > 0 THEN pd.total_qty - qty_closed
                     ELSE pd.total_qty + qty_closed
        release == ReduceRelease(pd, qty_closed, remaining)
    IN  [pd |-> [pd EXCEPT !.realized_pnl = pd.realized_pnl + pnl,
                           !.total_fees = pd.total_fees + fee,
                           !.trade_count = pd.trade_count + 1,
                           !.last_update_ts = timestamp,
                           !.total_qty = remaining,
                           !.avg_entry_price = exit_price,
                           !.margin_held = pd.margin_held - release],
         pnl |-> pnl,
         remaining |-> remaining,
         release |-> release]

\* PositionDetails::reduce_position: the updated record and the returned
\* (realized_pnl, remaining_qty, margin_to_release).
reduce_position(pd, exit_price, reduce_qty, fee, timestamp) ==
    LET qty_closed == Min(Abs(reduce_qty), Abs(pd.total_qty))
        pnl == ReducePnl(pd, exit_price, qty_closed)
        remaining == IF pd.total_qty > 0 THEN pd.total_qty - qty_closed
                     ELSE pd.total_qty + qty_closed
        release == ReduceRelease(pd, qty_closed, remaining)
    IN  [pd |-> [pd EXCEPT !.realized_pnl = pd.realized_pnl + pnl,
                           !.total_fees = pd.total_fees + fee,
                           !.trade_count = pd.trade_count + 1,
                           !.last_update_ts = timestamp,
                           !.total_qty = remaining,
                           !.margin_held = pd.margin_held - release],
         pnl |-> pnl,
         remaining |-> remaining,
         release |-> release]

\* ------------------------------------------------------------------- venue
\* Taker fee of the venues, in basis points (set at slab initialization).
TakerFeeBps == 10

EmptyReceipt == [used |-> FALSE, seqno_committed |-> 0, filled_qty |-> 0,
                 vwap_px |-> 0, notional |-> 0, fee |-> 0]

\* FillReceipt::write
ReceiptWrite(seqno, filled_qty, vwap_px, notional, fee) ==
    [used |-> TRUE, seqno_committed |-> seqno, filled_qty |-> filled_qty,
     vwap_px |-> vwap_px, notional |-> notional, fee |-> fee]

\* update_quote_cache_after_fill: a buy is added to the bids, a sell to the asks.
update_quote_cache_after_fill(seqno, side, px, qty) ==
    IF side = 0
    THEN [seqno |-> seqno, bids |-> <<[px |-> px, avail_qty |-> qty]>>, asks |-> <<>>]
    ELSE [seqno |-> seqno, bids |-> <<>>, asks |-> <<[px |-> px, avail_qty |-> qty]>>]

\* A faulty CommitFillError: quantity and price are not validated.
CommitFillErrorNoValidation(slab, router_signer, expected_seqno, qty, limit_px) ==
    IF slab.router_id # router_signer THEN "Unauthorized"
    ELSE IF slab.seqno # expected_seqno THEN "SeqnoMismatch"
    ELSE "Ok"

\* A faulty CommitFillError: the sequence fence is not compared.
CommitFillErrorNoFence(slab, router_signer, expected_seqno, qty, limit_px) ==
    IF slab.router_id # router_signer THEN "Unauthorized"
    ELSE IF qty <= 0 THEN "InvalidQuantity"
    ELSE IF limit_px <= 0 THEN "InvalidPrice"
    ELSE "Ok"

\* The error process_commit_fill returns, "Ok" when it fills.
CommitFillError(slab, router_signer, expected_seqno, qty, limit_px) ==
    IF slab.router_id # router_signer THEN "Unauthorized"
    ELSE IF slab.seqno # expected_seqno THEN "SeqnoMismatch"
    ELSE IF qty <= 0 THEN "InvalidQuantity"
    ELSE IF limit_px <= 0 THEN "InvalidPrice"
    ELSE "Ok"

\* The sign the venue gives the filled quantity it reports.
ReceiptFilledQty(side, qty) == qty

\* SlabHeader::increment_seqno
increment_seqno(seqno) == seqno + 1

\* A faulty process_commit_fill: the fill leaves the sequence number alone.
process_commit_fill_same_seqno(slab, side, qty, limit_px) ==
    LET seqno_start == slab.seqno
        filled_qty == ReceiptFilledQty(side, qty)
        notional == TruncDiv(filled_qty * limit_px, PRICE_SCALE)
        fee == TruncDiv(notional * slab.taker_fee_bps, BPS_DENOM)
    IN  [slab |-> [slab EXCEPT
                     !.quote_cache = update_quote_cache_after_fill(slab.seqno + 1, side, limit_px, filled_qty)],
         receipt |-> ReceiptWrite(seqno_start, filled_qty, limit_px, notional, fee)]

\* A faulty process_commit_fill: the fee is taken on the quantity, not on the
\* notional.
process_commit_fill_fee_on_qty(slab, side, qty, limit_px) ==
    LET seqno_start == slab.seqno
        filled_qty == ReceiptFilledQty(side, qty)
        notional == TruncDiv(filled_qty * limit_px, PRICE_SCALE)
        fee == TruncDiv(filled_qty * slab.taker_fee_bps, BPS_DENOM)
    IN  [slab |-> [slab EXCEPT
                     !.quote_cache = update_quote_cache_after_fill(slab.seqno + 1, side, limit_px, filled_qty),
                     !.seqno = increment_seqno(slab.seqno)],
         receipt |-> ReceiptWrite(seqno_start, filled_qty, limit_px, notional, fee)]

\* process_commit_fill: the slab and the receipt after a fill.
process_commit_fill(slab, side, qty, limit_px) ==
    LET seqno_start == slab.seqno
        filled_qty == ReceiptFilledQty(side, qty)
        vwap_px == limit_px
        notional == TruncDiv(filled_qty * limit_px, PRICE_SCALE)
        fee == TruncDiv(notional * slab.taker_fee_bps, BPS_DENOM)
    IN  [slab |-> [slab EXCEPT
                     !.quote_cache = update_quote_cache_after_fill(slab.seqno + 1, side, limit_px, filled_qty),
                     !.seqno = increment_seqno(slab.seqno)],
         receipt |-> ReceiptWrite(seqno_start, filled_qty, vwap_px, notional, fee)]

\* ------------------------------------------------------------------- state
VARIABLES
    user,       \* the trader's Portfolio
    dlp,        \* the counterparty pool's Portfolio
    lamports,   \* collateral balances of the two portfolio accounts, the
                \* trader's wallet and the Position Record accounts
    positions,  \* PositionDetails accounts, by registry index of the venue
    slabs,      \* venue state, by venue
    receipts,   \* fill receipt accounts, by venue
    registry,   \* SlabRegistry: registered venues, haircut, insurance
    clock,      \* the cluster clock (slot and timestamp advance together)
    last,       \* what the last instruction did and returned
    probe       \* a PositionDetails record driven directly (ledger specification)

vars == <<user, dlp, lamports, positions, slabs, receipts, registry, clock, last, probe>>

NumVenues == Cardinality(Venues)
SlabIndexes == 0..(NumVenues - 1)

\* Portfolio::get_exposure
get_exposure(pf, slab_idx) == pf.exposures[slab_idx]

\* Portfolio::update_exposure: sets the signed quantity (zero clears the slot).
update_exposure(pf, slab_idx, qty) == [pf EXCEPT !.exposures[slab_idx] = qty]

\* Portfolio::update_margin
update_margin(pf, im, mm) == [pf EXCEPT !.im = im, !.mm = mm]

\* Portfolio::has_sufficient_margin
has_sufficient_margin(pf) == pf.equity >= pf.mm

\* SlabRegistry::find_slab: the index of a registered venue, -1 when absent.
find_slab(reg, v) ==
    IF \E i \in 1..Len(reg.slabs) : reg.slabs[i].slab_id = v
    THEN (CHOOSE i \in 1..Len(reg.slabs) : reg.slabs[i].slab_id = v) - 1
    ELSE -1

\* SlabRegistry::register_slab: appends the venue with its risk parameters;
\* its index is the old length.
register_slab(reg, slab_id, imr, mmr, maker_fee_cap, taker_fee_cap, latency_sla_ms, max_exposure) ==
    [reg EXCEPT !.slabs = Append(reg.slabs,
        [slab_id |-> slab_id, imr |-> imr, mmr |-> mmr, maker_fee_cap |-> maker_fee_cap,
         taker_fee_cap |-> taker_fee_cap, latency_sla_ms |-> latency_sla_ms,
         max_exposure |-> max_exposure])]

\* u128::MAX as a maximum exposure: no limit.
NoExposureLimit == "u128::MAX"

\* The parameters of an auto-registered venue.
AutoRegistration ==
    [imr |-> 1000, mmr |-> 500, maker_fee_cap |-> 10, taker_fee_cap |-> 10,
     latency_sla_ms |-> 1000, max_exposure |-> NoExposureLimit]

\* Slots over which unvested PnL vests linearly.
VestingSlots == 2

\* on_user_touch: vests the elapsed fraction of positive unvested pnl, then
\* applies the registry's haircut to what stays unvested when the portfolio
\* has not yet caught up with the registry's haircut index.
on_user_touch(pf, haircut, current_slot) ==
    LET dt == current_slot - pf.last_slot
        vest == IF pf.pnl > 0 THEN (pf.pnl * Min(dt, VestingSlots)) \div VestingSlots ELSE 0
        rest == pf.pnl - vest
        cut == IF rest > 0 /\ pf.pnl_index_checkpoint # haircut.index
               THEN (rest * haircut.num) \div haircut.den
               ELSE rest
    IN  [pf EXCEPT !.pnl = cut,
                   !.vested_pnl = pf.vested_pnl + vest,
                   !.last_slot = current_slot,
                   !.pnl_index_checkpoint = haircut.index]

\* A faulty fence: the sequence number the venue started with, not the one it
\* has now.
ReadSeqnoAtStart(slab) == 0

\* The fence of the venue call: the sequence number read from the slab account
\* directly before the call is built.
ReadSeqno(slab) == slab.seqno

\* A faulty vesting touch: the execute leaves the vesting state alone.
VestingTouchSkipped(pf, reg, current_slot) == pf

\* The vesting touch of the execute, with the registry's haircut and the
\* clock's slot, right after the identity check.
VestingTouch(pf, reg, current_slot) == on_user_touch(pf, reg.global_haircut, current_slot)

\* Fraction of taker notional accrued to the insurance fund, in basis points.
InsuranceFeeBps == 5000

\* InsuranceState::accrue_from_fill
accrue_from_fill(reg, notional) ==
    [reg EXCEPT !.insurance = reg.insurance + (notional * InsuranceFeeBps) \div BPS_DENOM]

\* The ledger specification's record before any fill: no position, and the
\* running sums of the fills applied since it was opened.
ProbeIdle == [pd |-> NoPosition, before |-> NoPosition, op |-> "none", fills |-> 0,
              cost |-> 0, qty |-> 0, closed |-> 0, pnl |-> 0, release |-> 0,
              exit_price |-> 0, reduced |-> FALSE]

NoOp == [op |-> "none", result |-> "Ok", venue |-> "none", side |-> 0, qty |-> 0,
         px |-> 0, kind |-> "none", cur |-> 0, pnl |-> 0,
         released |-> 0, added |-> 0]

\* Rent::minimum_balance(POSITION_DETAILS_SIZE), and what the trader's wallet
\* holds at the start: enough for a record on every venue.
RentLamports == 2
WalletLamports == NumVenues * RentLamports

HaircutConfigs == {[index |-> 1, num |-> 1, den |-> 2]}

Init ==
    /\ \E d \in UserDeposits :
        /\ user = [user |-> Owner, equity |-> d, principal |-> d, pnl |-> 0,
                   vested_pnl |-> 0, im |-> 0, mm |-> 0, last_slot |-> 0,
                   pnl_index_checkpoint |-> 0,
                   exposures |-> [i \in SlabIndexes |-> 0]]
        /\ \E e \in DlpDeposits :
            /\ dlp = [equity |-> e, principal |-> e, pnl |-> 0]
            /\ lamports = [user |-> d, dlp |-> e, wallet |-> WalletLamports,
                           pda |-> [i \in SlabIndexes |-> 0]]
    /\ positions = [i \in SlabIndexes |-> NoPosition]
    /\ slabs = [v \in Venues |-> [router_id |-> RouterAuthority, seqno |-> 0,
                                  taker_fee_bps |-> TakerFeeBps,
                                  quote_cache |-> [seqno |-> 0, bids |-> <<>>, asks |-> <<>>]]]
    /\ receipts = [v \in Venues |-> EmptyReceipt]
    /\ \E h \in HaircutConfigs :
        registry = [slabs |-> <<>>, global_haircut |-> h, insurance |-> 0]
    /\ clock = 0
    /\ last = NoOp
    /\ probe = ProbeIdle

\* --------------------------------------------------------- collateral moves
\* The books of one execute: both portfolios, the two collateral balances and
\* the error of the first failed step ("Ok" while none failed).
Books(u, d, l) == [user |-> u, dlp |-> d, lamports |-> l, err |-> "Ok"]
Failed(w, e) == [w EXCEPT !.err = e]

\* create_position_details_pda: the payer (the trader's wallet) funds the
\* account with the rent-exempt minimum; ok is the system program's answer.
create_position_details_pda(w, slab_idx, ok) ==
    IF ~ok \/ w.lamports.wallet < RentLamports THEN Failed(w, "InvalidAccount")
    ELSE [w EXCEPT !.lamports.wallet = @ - RentLamports,
                   !.lamports.pda[slab_idx] = @ + RentLamports]

\* close_position_details_pda: all lamports of the account go to the
\* recipient (the trader's wallet); the data is zeroed.
close_position_details_pda(w, slab_idx) ==
    [w EXCEPT !.lamports.wallet = @ + w.lamports.pda[slab_idx],
              !.lamports.pda[slab_idx] = 0]

\* A faulty transfer_collateral_margin: the trader's balance is not checked.
transfer_collateral_margin_unchecked(w, margin) ==
    IF margin = 0 THEN w
    ELSE [w EXCEPT !.lamports.user = @ - margin,
                   !.lamports.dlp = @ + margin,
                   !.user.equity = @ - margin,
                   !.dlp.equity = @ + margin,
                   !.user.principal = @ - margin,
                   !.dlp.principal = @ + margin]

\* transfer_collateral_margin: trader -> counterparty on Open/Add.
transfer_collateral_margin(w, margin) ==
    IF margin = 0 THEN w
    ELSE IF w.lamports.user < margin THEN Failed(w, "InsufficientFunds")
    ELSE [w EXCEPT !.lamports.user = @ - margin,
                   !.lamports.dlp = @ + margin,
                   !.user.equity = @ - margin,
                   !.dlp.equity = @ + margin,
                   !.user.principal = @ - margin,
                   !.dlp.principal = @ + margin]

\* A faulty return_margin_to_user: credits the trader's books without
\* debiting the counterparty's.
return_margin_credit_only(w, margin) ==
    IF margin = 0 THEN w
    ELSE IF w.lamports.dlp < margin THEN Failed(w, "InsufficientFunds")
    ELSE [w EXCEPT !.lamports.dlp = @ - margin,
                   !.lamports.user = @ + margin,
                   !.user.equity = @ + margin,
                   !.user.principal = @ + margin]

\* return_margin_to_user: counterparty -> trader on Reduce.
return_margin_to_user(w, margin) ==
    IF margin = 0 THEN w
    ELSE IF w.lamports.dlp < margin THEN Failed(w, "InsufficientFunds")
    ELSE [w EXCEPT !.lamports.dlp = @ - margin,
                   !.lamports.user = @ + margin,
                   !.dlp.equity = @ - margin,
                   !.user.equity = @ + margin,
                   !.dlp.principal = @ - margin,
                   !.user.principal = @ + margin]

\* A faulty settle_pnl: books the PnL on the trader and moves the collateral,
\* but leaves the counterparty's books alone.
settle_pnl_trader_only(w, realized_pnl) ==
    IF realized_pnl = 0 THEN w
    ELSE LET booked == [w EXCEPT !.user.pnl = @ + realized_pnl,
                                 !.user.equity = @ + realized_pnl]
         IN  IF realized_pnl > 0
             THEN IF w.lamports.dlp < realized_pnl
                  THEN Failed(booked, "InsufficientFunds")
                  ELSE [booked EXCEPT !.lamports.dlp = @ - realized_pnl,
                                      !.lamports.user = @ + realized_pnl]
             ELSE IF w.lamports.user < -realized_pnl
                  THEN Failed(booked, "InsufficientFunds")
                  ELSE [booked EXCEPT !.lamports.user = @ - (-realized_pnl),
                                      !.lamports.dlp = @ + (-realized_pnl)]

\* settle_pnl: the realized PnL of the execute, trader <-> counterparty.
settle_pnl(w, realized_pnl) ==
    IF realized_pnl = 0 THEN w
    ELSE LET booked == [w EXCEPT !.user.pnl = @ + realized_pnl,
                                 !.dlp.pnl = @ - realized_pnl,
                                 !.user.equity = @ + realized_pnl,
                                 !.dlp.equity = @ - realized_pnl]
         IN  IF realized_pnl > 0
             THEN IF w.lamports.dlp < realized_pnl
                  THEN Failed(booked, "InsufficientFunds")
                  ELSE [booked EXCEPT !.lamports.dlp = @ - realized_pnl,
                                      !.lamports.user = @ + realized_pnl]
             ELSE IF w.lamports.user < -realized_pnl
                  THEN Failed(booked, "InsufficientFunds")
                  ELSE [booked EXCEPT !.lamports.user = @ - (-realized_pnl),
                                      !.lamports.dlp = @ + (-realized_pnl)]

\* ----------------------------------------------------------------- execute
\* A faulty validate_limit_order_price: every limit price passes.
validate_limit_order_price_any(limit_px, oracle_px) == TRUE

\* validate_limit_order_price: the limit lies within the band around the oracle.
validate_limit_order_price(limit_px, oracle_px) ==
    LET max_deviation == TruncDiv(oracle_px * MAX_DEVIATION_BPS, BPS_DENOM)
        min_price == oracle_px - max_deviation
        max_price == oracle_px + max_deviation
    IN  ~(limit_px < min_price \/ limit_px > max_price)

\* A faulty ExecutionPrice: the limit price is sent for every order type.
ExecutionPriceLimit(order_type, limit_px, oracle_px) == limit_px

\* The price sent to the venue: the oracle price for a market order, the
\* limit price for a limit order.
ExecutionPrice(order_type, limit_px, oracle_px) ==
    IF order_type = 0 THEN oracle_px ELSE limit_px

\* The checks of process_execute_cross_slab that precede the venue call (the
\* identity check comes first, before the vesting touch).
PreVenueError(pf, caller, nslabs, order_type, authority, limit_px, oracle_px) ==
    IF pf.user # caller THEN "InvalidPortfolio"
    ELSE IF nslabs # V0_SLABS THEN "InvalidInstruction"
    ELSE IF order_type > 1 THEN "InvalidOrderType"
    ELSE IF authority # RouterAuthority THEN "InvalidAccount"
    ELSE IF order_type = 1 /\ ~validate_limit_order_price(limit_px, oracle_px) THEN "InvalidPrice"
    ELSE "Ok"

\* The fill classes of the receipt phase, from the current exposure.
SameDirection(is_buy, cur) == (is_buy /\ cur >= 0) \/ (~is_buy /\ cur <= 0)
FillKind(is_buy, cur, filled_qty) ==
    IF SameDirection(is_buy, cur) \/ cur = 0 THEN "Add"
    ELSE IF Abs(filled_qty) <= Abs(cur) THEN "Reduce"
    ELSE "Reverse"

\* A faulty OpenMargin: no margin is taken.
OpenMarginNone(quantity_abs, leverage) == 0

\* The margin of an Open/Add of quantity_abs at the given leverage.
OpenMargin(quantity_abs, leverage) == (quantity_abs * MARGIN_UNIT) \div leverage

\* Case 1 of the receipt phase: adding to a position or opening one.
ApplyAdd(w, pd, vwap_px, filled_qty, leverage, ts) ==
    IF leverage = 0 \/ AddPanics(pd, filled_qty)
    THEN [w |-> Failed(w, "Panic"), acct |-> NoPosition, pnl |-> 0, released |-> 0, added |-> 0]
    ELSE LET margin_lamports == OpenMargin(Abs(filled_qty), leverage)
             pd1 == add_to_position(pd, vwap_px, filled_qty, 0, ts, margin_lamports)
         IN  [w |-> transfer_collateral_margin(w, margin_lamports),
              acct |-> pd1, pnl |-> 0, released |-> 0, added |-> margin_lamports]

\* Case 2: partial or full close; the record is closed when nothing remains.
ApplyReduce(w, pd, slab_idx, vwap_px, filled_qty, ts) ==
    LET r == reduce_position(pd, vwap_px, filled_qty, 0, ts)
        w1 == return_margin_to_user(w, r.release)
    IN  [w |-> IF w1.err = "Ok" /\ r.remaining = 0
               THEN close_position_details_pda(w1, slab_idx) ELSE w1,
         acct |-> IF r.remaining = 0 THEN NoPosition ELSE r.pd,
         pnl |-> r.pnl, released |-> r.release, added |-> 0]

\* The record the reversal branch opens for the remainder: created with
\* new_qty, then add_to_position is applied to it with new_qty again.
ReversedPosition(slab_idx, vwap_px, new_qty, ts, new_margin, leverage) ==
    add_to_position(PositionDetailsNew(slab_idx, vwap_px, new_qty, ts, 0, leverage),
                    vwap_px, new_qty, 0, ts, new_margin)

\* Case 3: reversal; closes the existing record and opens the remainder.
ApplyReverse(w, pd, slab_idx, is_buy, cur, vwap_px, filled_qty, leverage, ts, recreateOk) ==
    LET current_abs == Abs(cur)
        close_qty == IF cur > 0 THEN -current_abs ELSE current_abs
        r == reduce_position(pd, vwap_px, close_qty, 0, ts)
        w1 == return_margin_to_user(w, r.release)
        w2 == create_position_details_pda(close_position_details_pda(w1, slab_idx),
                                          slab_idx, recreateOk)
        remaining_qty_abs == Abs(filled_qty) - current_abs
        new_qty == IF is_buy THEN remaining_qty_abs ELSE -remaining_qty_abs
        none == [w |-> w1, acct |-> NoPosition, pnl |-> r.pnl, released |-> r.release, added |-> 0]
    IN  IF w1.err # "Ok" THEN none
        ELSE IF w2.err # "Ok" THEN [none EXCEPT !.w = w2]
        ELSE IF leverage = 0 THEN [none EXCEPT !.w = Failed(w2, "Panic")]
        ELSE LET new_margin == OpenMargin(remaining_qty_abs, leverage)
             IN  [w |-> transfer_collateral_margin(w2, new_margin),
                  acct |-> ReversedPosition(slab_idx, vwap_px, new_qty, ts, new_margin, leverage),
                  pnl |-> r.pnl, released |-> r.release, added |-> new_margin]

\* A faulty receipt phase: a partial Reduce rewrites the record's leverage
\* with the one the request carries.
ApplyReceiptReleverages(w, loaded, slab_idx, side, cur, vwap_px, filled_qty, leverage, ts, createOk, recreateOk) ==
    LET is_buy == side = 0
        pd == IF loaded.exists THEN loaded
              ELSE PositionDetailsNew(slab_idx, vwap_px, 0, ts, 0, leverage)
        w0 == IF loaded.exists THEN w ELSE create_position_details_pda(w, slab_idx, createOk)
        kind == FillKind(is_buy, cur, filled_qty)
        reduced == ApplyReduce(w0, pd, slab_idx, vwap_px, filled_qty, ts)
    IN  IF w0.err # "Ok"
        THEN [w |-> w0, acct |-> NoPosition, pnl |-> 0, released |-> 0, added |-> 0]
        ELSE IF kind = "Add" THEN ApplyAdd(w0, pd, vwap_px, filled_qty, leverage, ts)
        ELSE IF kind = "Reduce"
             THEN IF reduced.acct.exists
                  THEN [reduced EXCEPT !.acct = [reduced.acct EXCEPT !.leverage = leverage]]
                  ELSE reduced
        ELSE ApplyReverse(w0, pd, slab_idx, is_buy, cur, vwap_px, filled_qty, leverage, ts, recreateOk)

\* The receipt phase for the one split: loads or creates the record,
\* classifies the fill and applies it.
ApplyReceipt(w, loaded, slab_idx, side, cur, vwap_px, filled_qty, leverage, ts, createOk, recreateOk) ==
    LET is_buy == side = 0
        pd == IF loaded.exists THEN loaded
              ELSE PositionDetailsNew(slab_idx, vwap_px, 0, ts, 0, leverage)
        w0 == IF loaded.exists THEN w ELSE create_position_details_pda(w, slab_idx, createOk)
        kind == FillKind(is_buy, cur, filled_qty)
    IN  IF w0.err # "Ok"
        THEN [w |-> w0, acct |-> NoPosition, pnl |-> 0, released |-> 0, added |-> 0]
        ELSE IF kind = "Add" THEN ApplyAdd(w0, pd, vwap_px, filled_qty, leverage, ts)
        ELSE IF kind = "Reduce" THEN ApplyReduce(w0, pd, slab_idx, vwap_px, filled_qty, ts)
        ELSE ApplyReverse(w0, pd, slab_idx, is_buy, cur, vwap_px, filled_qty, leverage, ts, recreateOk)

\* The exposure after the fill.
NewExposure(cur, filled_qty) == cur + filled_qty

\* The notional insurance is accrued on, from the split.
SplitNotional(qty, limit_px) == (Abs(qty) * Abs(limit_px)) \div PRICE_SCALE

\* calculate_portfolio_margin_from_exposures: sums margin_held of the records
\* of the non-zero exposures whose account is among those passed (the one of
\* the split's venue); a closed account reads as zero.
calculate_portfolio_margin_from_exposures(pf, accts, passed) ==
    LET held(i) == IF pf.exposures[i] # 0 /\ i \in passed /\ accts[i].exists
                   THEN accts[i].margin_held ELSE 0
        RECURSIVE sum(_)
        sum(S) == IF S = {} THEN 0
                  ELSE LET i == CHOOSE x \in S : TRUE IN held(i) + sum(S \ {i})
    IN  sum(SlabIndexes)

\* A faulty acceptance check: accepts every execute.
MarginRejectedNever(pf) == FALSE

\* The acceptance check at the end of the execute.
MarginRejected(pf) == ~has_sufficient_margin(pf)

\* The requests of the trading specification: on the first venue every
\* combination of the input sets, on the other venue one kind of order.  A
\* request names the slab account and the receipt account it passes.
TradeRequests ==
    [venue : {"slabA"}, receipt : {"slabA"}, caller : {Owner}, authority : {RouterAuthority},
     nslabs : {V0_SLABS}, order_type : {0, 1}, side : Sides, qty : Quantities, limit_px : LimitPrices,
     oracle_px : OraclePrices, leverage : Leverages]
    \cup
    [venue : {"slabB"}, receipt : {"slabB"}, caller : {Owner}, authority : {RouterAuthority},
     nslabs : {V0_SLABS}, order_type : {1}, side : {0}, qty : {1}, limit_px : {1050000},
     oracle_px : {1050000}, leverage : {5}]

\* process_execute_cross_slab on one request, from the current state: the
\* error it returns ("Ok" on success) and the state it leaves on success.
\* Creating a PositionDetails account is the system program's work and is
\* taken to succeed.  The program invoked for the fill is the owner of the
\* slab account passed: the slab program for the venues, and for any other
\* account a program that returns without writing.
ExecuteRun(req, cap) ==
    LET v == req.venue
        native == v \in Venues
        pre == PreVenueError(user, req.caller, req.nslabs, req.order_type, req.authority,
                             req.limit_px, req.oracle_px)
        touched == VestingTouch(user, registry, clock)
        execution_price == ExecutionPrice(req.order_type, req.limit_px, req.oracle_px)
        expected_seqno == ReadSeqno(slabs[v])
        cferr == IF native
                 THEN CommitFillError(slabs[v], req.authority, expected_seqno, req.qty, execution_price)
                 ELSE "Ok"
        fill == process_commit_fill(slabs[v], req.side, req.qty, execution_price)
        receipt == IF native THEN fill.receipt ELSE receipts[req.receipt]
        filled == pre = "Ok" /\ cferr = "Ok"
        found == find_slab(registry, v)
        reg1 == IF found = -1
                THEN register_slab(registry, v, AutoRegistration.imr, AutoRegistration.mmr,
                                   AutoRegistration.maker_fee_cap, AutoRegistration.taker_fee_cap,
                                   AutoRegistration.latency_sla_ms, AutoRegistration.max_exposure)
                ELSE registry
        slab_idx == IF found = -1 THEN Len(registry.slabs) ELSE found
        cur == get_exposure(touched, slab_idx)
        a == ApplyReceipt(Books(touched, dlp, lamports), positions[slab_idx], slab_idx, req.side,
                          cur, receipt.vwap_px, receipt.filled_qty, req.leverage, clock, TRUE, TRUE)
        w2 == [a.w EXCEPT !.user = update_exposure(@, slab_idx, NewExposure(cur, receipt.filled_qty))]
        w3 == settle_pnl(w2, a.pnl)
        total_notional == SplitNotional(req.qty, req.limit_px)
        reg2 == IF total_notional > 0 THEN accrue_from_fill(reg1, total_notional) ELSE reg1
        accts == [positions EXCEPT ![slab_idx] = a.acct]
        im_required == calculate_portfolio_margin_from_exposures(w3.user, accts, {slab_idx})
        u4 == update_margin(w3.user, im_required, im_required \div 2)
        err == IF pre # "Ok" THEN pre
               ELSE IF cferr # "Ok" THEN cferr
               ELSE IF ~receipt.used THEN "InvalidReceipt"
               ELSE IF a.w.err # "Ok" THEN a.w.err
               ELSE IF w3.err # "Ok" THEN w3.err
               ELSE IF MarginRejected(u4) THEN "PortfolioInsufficientMargin"
               ELSE "Ok"
    IN  [err |-> err,
         reached_acceptance |-> pre = "Ok" /\ cferr = "Ok" /\ receipt.used
                                /\ a.w.err = "Ok" /\ w3.err = "Ok",
         exposure_ok |-> pre = "Ok" /\ cferr = "Ok" => cur + req.qty <= cap,
         user |-> u4, dlp |-> w3.dlp, lamports |-> w3.lamports, positions |-> accts,
         venue_called |-> pre = "Ok",
         slabs |-> IF filled /\ native THEN [slabs EXCEPT ![v] = fill.slab] ELSE slabs,
         receipts |-> IF filled THEN [receipts EXCEPT ![req.receipt] = receipt] ELSE receipts,
         registry |-> reg2,
         last |-> [op |-> "execute", result |-> "Ok", venue |-> v, side |-> req.side,
                   qty |-> receipt.filled_qty, px |-> receipt.vwap_px,
                   kind |-> FillKind(req.side = 0, cur, receipt.filled_qty),
                   cur |-> cur, pnl |-> a.pnl, released |-> a.released, added |-> a.added]]

\* A faulty ExecuteCrossSlab: the writes made before an error stay.
ExecuteKeepsWrites(req, cap) ==
    \E run \in {ExecuteRun(req, cap)} :
        /\ run.exposure_ok
        /\ user' = run.user
        /\ dlp' = run.dlp
        /\ lamports' = run.lamports
        /\ positions' = run.positions
        /\ slabs' = run.slabs
        /\ receipts' = run.receipts
        /\ registry' = run.registry
        /\ last' = [run.last EXCEPT !.result = run.err]
        /\ UNCHANGED <<clock, probe>>

\* The ExecuteCrossSlab instruction.  An error aborts the transaction: the
\* runtime discards every account write the instruction made.
Execute(req, cap) ==
    \E run \in {ExecuteRun(req, cap)} :
        /\ run.exposure_ok
        /\ IF run.err = "Ok"
           THEN /\ user' = run.user
                /\ dlp' = run.dlp
                /\ lamports' = run.lamports
                /\ positions' = run.positions
                /\ slabs' = run.slabs
                /\ receipts' = run.receipts
                /\ registry' = run.registry
                /\ last' = run.last
           ELSE /\ last' = [NoOp EXCEPT !.op = "execute", !.result = run.err]
                /\ UNCHANGED <<user, dlp, lamports, positions, slabs, receipts, registry>>
        /\ UNCHANGED <<clock, probe>>

\* Trading: executes on well-formed requests, at one instant.
Next == \E req \in TradeRequests : Execute(req, MaxExposure)

Spec == Init /\ [][Next]_vars

\* Trading on one venue with larger fills at one leverage, so that a
\* reversal can meet a record larger than the exposure it reverses.
DeepQuantities == {1, 4, 6}
DeepLeverages == {10}
DeepPrices == {1050000}
DeepRequests ==
    [venue : {"slabA"}, receipt : {"slabA"}, caller : {Owner}, authority : {RouterAuthority},
     nslabs : {V0_SLABS}, order_type : {1}, side : Sides, qty : DeepQuantities, limit_px : DeepPrices,
     oracle_px : DeepPrices, leverage : DeepLeverages]

NextDeep == \E req \in DeepRequests : Execute(req, DeepMaxExposure)

SpecDeep == Init /\ [][NextDeep]_vars

\* ------------------------------------------------------------------ ledger
\* The position ledger on its own: one record driven through
\* add_to_position and reduce_position, long and short, with the running
\* sums of the fills applied since it was opened: it is opened, added to,
\* then reduced until closed, and opened again.
ProbeOpen(side, px, q, leverage) ==
    /\ IF probe.pd.exists THEN probe.pd.total_qty = 0 ELSE TRUE
    /\ probe' = [pd |-> add_to_position(PositionDetailsNew(0, px, 0, clock, 0, leverage), px,
                                        SignedBySide(side, q), 0, clock, OpenMargin(q, leverage)),
                 before |-> NoPosition, op |-> "open", fills |-> 1, cost |-> px * q,
                 qty |-> SignedBySide(side, q), closed |-> 0, pnl |-> 0, release |-> 0,
                 exit_price |-> 0, reduced |-> FALSE]
    /\ UNCHANGED <<user, dlp, lamports, positions, slabs, receipts, registry, clock, last>>

ProbeAdd(px, q) ==
    /\ probe.pd.exists /\ probe.pd.total_qty # 0 /\ ~probe.reduced
    /\ Abs(probe.pd.total_qty) + q <= MaxLedgerQty
    /\ LET fill_qty == IF probe.pd.total_qty > 0 THEN q ELSE -q
       IN  probe' = [probe EXCEPT
                        !.pd = add_to_position(probe.pd, px, fill_qty, 0, clock,
                                               OpenMargin(q, probe.pd.leverage)),
                        !.before = probe.pd, !.op = "add", !.fills = @ + 1,
                        !.cost = @ + px * q, !.qty = @ + fill_qty]
    /\ UNCHANGED <<user, dlp, lamports, positions, slabs, receipts, registry, clock, last>>

ProbeReduce(px, q) ==
    /\ probe.pd.exists /\ probe.pd.total_qty # 0
    /\ LET reduce_qty == IF probe.pd.total_qty > 0 THEN -q ELSE q
           r == reduce_position(probe.pd, px, reduce_qty, 0, clock)
       IN  probe' = [probe EXCEPT
                        !.pd = r.pd, !.before = probe.pd, !.op = "reduce",
                        !.closed = Min(q, Abs(probe.pd.total_qty)), !.pnl = r.pnl,
                        !.release = r.release, !.exit_price = px, !.reduced = TRUE]
    /\ UNCHANGED <<user, dlp, lamports, positions, slabs, receipts, registry, clock, last>>

NextLedger ==
    \/ \E side \in Sides, px \in OraclePrices, q \in Quantities, lev \in Leverages :
          ProbeOpen(side, px, q, lev)
    \/ \E px \in OraclePrices, q \in Quantities : ProbeAdd(px, q)
    \/ \E px \in OraclePrices, q \in Quantities : ProbeReduce(px, q)

SpecLedger == Init /\ [][NextLedger]_vars

\* The ledger on the worked example's values.  A price of 1 is 1000 raw and a
\* quantity of 1.0 is 10 raw, so that the products stay inside TLC's integers:
\* 50,000 / 51,000 / 52,000 and 1.0 / 2.0.  At leverage 10 the margin of a
\* fill of q is q * 100.
ScenarioPrices == {50000000, 51000000, 52000000}
ScenarioQuantities == {10, 20}
ScenarioLeverages == {10}

ScenarioAdd(px, q) ==
    /\ probe.pd.exists /\ probe.pd.total_qty # 0 /\ ~probe.reduced
    /\ Abs(probe.pd.total_qty) + q <= MaxScenarioQty
    /\ LET fill_qty == IF probe.pd.total_qty > 0 THEN q ELSE -q
       IN  probe' = [probe EXCEPT
                        !.pd = add_to_position(probe.pd, px, fill_qty, 0, clock,
                                               OpenMargin(q, probe.pd.leverage)),
                        !.before = probe.pd, !.op = "add", !.fills = @ + 1,
                        !.cost = @ + px * q, !.qty = @ + fill_qty]
    /\ UNCHANGED <<user, dlp, lamports, positions, slabs, receipts, registry, clock, last>>

NextScenario ==
    \/ \E side \in Sides, px \in ScenarioPrices, q \in ScenarioQuantities,
           lev \in ScenarioLeverages : ProbeOpen(side, px, q, lev)
    \/ \E px \in ScenarioPrices, q \in ScenarioQuantities : ScenarioAdd(px, q)
    \/ \E px \in ScenarioPrices, q \in ScenarioQuantities : ProbeReduce(px, q)

SpecScenario == Init /\ [][NextScenario]_vars

\* ------------------------------------------------------------------ claims
\* The records an execute may write.
Core == <<user, dlp, lamports, positions, slabs, receipts, registry>>

ExecuteDone == last.op = "execute" /\ last.result = "Ok"
LastIdx == find_slab(registry, last.venue)

\* C1: an execute whose recomputed maintenance margin exceeds the trader's
\* equity returns the insufficient-margin error, and an execute that returns
\* it leaves every record as it was: both portfolios, the collateral
\* balances, the Position Records, the venues and the registry.
C1_MarginRejectionIsAtomic ==
    /\ [](\A req \in TradeRequests :
            LET run == ExecuteRun(req, MaxExposure)
            IN  (run.reached_acceptance /\ run.user.equity < run.user.mm)
                    => run.err = "PortfolioInsufficientMargin")
    /\ [][(last'.op = "execute" /\ last'.result = "PortfolioInsufficientMargin")
             => UNCHANGED Core]_vars

C1_Witness == last.op = "execute" /\ last.result = "PortfolioInsufficientMargin"

\* C2: in every state (so after every successful execute of any sequence) the
\* trader's equity is at least the maintenance margin the last execute set.
C2_EquityCoversMaintenance == user.equity >= user.mm

C2_Witness == ExecuteDone /\ user.mm > 0 /\ last.kind = "Reduce"

\* C3: after a successful execute on a venue with zero exposure, the record's
\* total_qty and the exposure are both +q for a buy and -q for a sell.
C3_OpenTakesFillDirection ==
    (ExecuteDone /\ last.cur = 0) =>
        /\ positions[LastIdx].exists
        /\ positions[LastIdx].total_qty = SignedBySide(last.side, last.qty)
        /\ user.exposures[LastIdx] = SignedBySide(last.side, last.qty)

\* C4: the exposure of each venue equals the total_qty of its record, and is
\* zero exactly when there is no record.
C4_ExposureMatchesRecord ==
    \A i \in SlabIndexes :
        /\ positions[i].exists => user.exposures[i] = positions[i].total_qty
        /\ user.exposures[i] = 0 <=> ~positions[i].exists

\* C5: the realized PnL of a successful execute is settled once and zero-sum:
\* equity, collateral balance and pnl of the trader change by +pnl and those
\* of the counterparty by -pnl, on top of the execute's net margin movement.
C5_PnlSettledOnceZeroSum ==
    [][(last'.op = "execute" /\ last'.result = "Ok") =>
        LET p == last'.pnl
            net == last'.released - last'.added
        IN  /\ user'.equity = user.equity + net + p
            /\ dlp'.equity = dlp.equity - net - p
            /\ lamports'.user = lamports.user + net + p
            /\ lamports'.dlp = lamports.dlp - net - p
            /\ user'.pnl = on_user_touch(user, registry.global_haircut, clock).pnl + p
            /\ dlp'.pnl = dlp.pnl - p]_vars

C5_Witness == ExecuteDone /\ last.pnl # 0 /\ user.pnl = last.pnl /\ dlp.pnl = -last.pnl

\* C6: the sums of the two portfolios' equity, principal and collateral
\* balances never change.
C6_MarginTransfersZeroSum ==
    [][/\ user'.equity + dlp'.equity = user.equity + dlp.equity
       /\ user'.principal + dlp'.principal = user.principal + dlp.principal
       /\ lamports'.user + lamports'.dlp = lamports.user + lamports.dlp]_vars

C6_Witness == ExecuteDone /\ last.kind = "Reverse" /\ last.released > 0 /\ last.added > 0

\* C7: a Reverse leaves total_qty = |fill| - |current| in the fill's direction,
\* avg_entry_price = fill price, the same quantity as exposure, and realizes
\* the PnL of closing the whole old quantity at the fill price.
C7_ReverseIsCloseThenOpen ==
    [][(last'.op = "execute" /\ last'.result = "Ok" /\ last'.kind = "Reverse") =>
        LET i == find_slab(registry', last'.venue)
            rest == SignedBySide(last'.side, last'.qty - Abs(last'.cur))
            old == positions[i]
        IN  /\ positions'[i].exists
            /\ positions'[i].total_qty = rest
            /\ positions'[i].avg_entry_price = last'.px
            /\ user'.exposures[i] = rest
            /\ old.exists =>
                 last'.pnl = TruncDiv(last'.cur * (last'.px - old.avg_entry_price), PRICE_SCALE)]_vars

\* C8: after a Reverse margin_held is the Open margin of the remainder only;
\* all margin of the old record went back to the trader and only the new
\* margin went to the counterparty.
C8_ReverseMarginIsFresh ==
    [][(last'.op = "execute" /\ last'.result = "Ok" /\ last'.kind = "Reverse") =>
        LET i == find_slab(registry', last'.venue)
            rest == last'.qty - Abs(last'.cur)
            fresh == (rest * MARGIN_UNIT) \div positions'[i].leverage
            old_margin == IF positions[i].exists THEN positions[i].margin_held ELSE 0
        IN  /\ positions'[i].margin_held = fresh
            /\ last'.released = old_margin
            /\ last'.added = fresh
            /\ lamports'.dlp = lamports.dlp - old_margin + fresh - last'.pnl]_vars

C8_Witness == ExecuteDone /\ last.kind = "Reverse" /\ last.released > 0
              /\ positions[LastIdx].margin_held = last.added

\* C9 (as the code has it): after same-direction fills total_qty is the sum
\* of the fills, and avg_entry_price is the volume-weighted mean of the fill
\* prices up to the truncation of each add: never above the mean, and below it
\* by less than one raw price unit per add after the first.
C9_AvgTracksVwapWithinTruncation ==
    (probe.pd.exists /\ ~probe.reduced /\ probe.fills >= 1) =>
        LET Q == Abs(probe.qty)
        IN  /\ probe.pd.total_qty = probe.qty
            /\ probe.pd.avg_entry_price * Q <= probe.cost
            /\ probe.cost - probe.pd.avg_entry_price * Q <= (probe.fills - 1) * Q

C9_Witness ==
    /\ probe.op = "add" /\ ~probe.reduced /\ probe.fills >= 3
    /\ probe.pd.avg_entry_price < probe.cost \div Abs(probe.qty)

\* C9 (as stated): after same-direction fills avg_entry_price equals the
\* volume-weighted mean of the fill prices (in whole raw price units) and
\* total_qty the sum of the fills.
C9_AvgIsVwap ==
    (probe.pd.exists /\ ~probe.reduced /\ probe.fills >= 1) =>
        /\ probe.pd.total_qty = probe.qty
        /\ probe.pd.avg_entry_price = probe.cost \div Abs(probe.qty)

C11_ProportionalRelease ==
    probe.op = "reduce" =>
        LET b == probe.before
        IN  /\ probe.pd.total_qty # 0 =>
                 probe.release = (b.margin_held * probe.closed) \div Abs(b.total_qty)
            /\ probe.pd.total_qty = 0 => probe.release = b.margin_held
            /\ probe.pd.margin_held = b.margin_held - probe.release

\* The worked example: a long opened with 2.0 at 50,000 and 1.0 added at
\* 51,000 (in either order), then reduced by 1.0 at 52,000.
C12_Example ==
    /\ probe.op = "reduce" /\ probe.fills = 2 /\ probe.qty = 30
    /\ probe.cost = 50000000 * 20 + 51000000 * 10
    /\ probe.before.realized_pnl = 0 /\ probe.before.total_qty = 30
    /\ probe.exit_price = 52000000 /\ probe.closed = 10

C13_ExactOppositeFillCloses ==
    [][(/\ last'.op = "execute" /\ last'.result = "Ok"
        /\ last'.cur # 0 /\ last'.qty = Abs(last'.cur)
        /\ (last'.side = 0) # (last'.cur > 0)) =>
        LET i == find_slab(registry', last'.venue)
            old_margin == IF positions[i].exists THEN positions[i].margin_held ELSE 0
        IN  /\ last'.kind = "Reduce"
            /\ user'.exposures[i] = 0
            /\ ~positions'[i].exists
            /\ last'.released = old_margin
            /\ last'.added = 0]_vars

\* C14: every Position Record has margin_held >= 0, and margin_held = 0
\* exactly when total_qty = 0.
C14_MarginHeldIffOpen ==
    \A i \in SlabIndexes :
        positions[i].exists =>
            /\ positions[i].margin_held >= 0
            /\ (positions[i].margin_held = 0) <=> (positions[i].total_qty = 0)

C14_Witness ==
    /\ ExecuteDone /\ last.kind = "Reduce" /\ positions[LastIdx].exists
    /\ positions[LastIdx].margin_held > 0 /\ last.released > 0

\* C15: a Position Record is created, fresh, by the fill that opens exposure
\* on its key; it is destroyed only by an execute that brings its
\* total_qty to zero, with its whole margin released and the account's rent
\* refunded to the trader's wallet; no stored record has total_qty = 0.
C15_RecordLifecycle ==
    [][(last'.op = "execute" /\ last'.result = "Ok") =>
        LET i == find_slab(registry', last'.venue)
            old == positions[i]
            new == positions'[i]
            destroyed == old.exists /\ (~new.exists \/ last'.kind = "Reverse")
            created == new.exists /\ (~old.exists \/ last'.kind = "Reverse")
        IN  /\ (last'.cur = 0) => created
            /\ created =>
                 /\ new.realized_pnl = 0 /\ new.total_fees = 0
                 /\ new.margin_held = last'.added
                 /\ lamports'.pda[i] = RentLamports
            /\ destroyed =>
                 /\ Abs(old.total_qty) <= Abs(last'.cur)
                 /\ last'.released = old.margin_held
                 /\ lamports'.wallet + lamports'.pda[i] = lamports.wallet + lamports.pda[i]
            /\ (old.exists /\ ~new.exists) =>
                 /\ lamports'.pda[i] = 0
                 /\ lamports'.wallet = lamports.wallet + RentLamports
            /\ new.exists => new.total_qty # 0
            /\ (old.exists /\ last'.kind = "Reduce" /\ last'.qty >= Abs(old.total_qty))
                 => ~new.exists]_vars

\* C16: after a successful execute initial margin is the sum of margin_held
\* over the records of all non-zero exposures, on every venue, and
\* maintenance margin is half of it.
C16_MarginSumsAllVenues ==
    ExecuteDone =>
        /\ user.im = calculate_portfolio_margin_from_exposures(user, positions, SlabIndexes)
        /\ user.mm = user.im \div 2

\* C17: an Open/Add of quantity q at leverage L adds q * 1000 / L to
\* margin_held, moves exactly that collateral (equity, principal, balance)
\* from the trader to the counterparty, grows total_qty by q in the fill's
\* direction, and realizes no PnL.
C17_OpenAddTakesMargin ==
    \A req \in TradeRequests :
        LET run == ExecuteRun(req, MaxExposure)
            i == find_slab(run.registry, req.venue)
            old == positions[i]
            new == run.positions[i]
            q == run.last.qty
            margin == (q * MARGIN_UNIT) \div req.leverage
            old_margin == IF old.exists THEN old.margin_held ELSE 0
            old_qty == IF old.exists THEN old.total_qty ELSE 0
        IN  (run.err = "Ok" /\ run.last.kind = "Add") =>
                /\ new.exists
                /\ new.margin_held = old_margin + margin
                /\ run.user.equity = user.equity - margin
                /\ run.user.principal = user.principal - margin
                /\ run.lamports.user = lamports.user - margin
                /\ run.dlp.equity = dlp.equity + margin
                /\ run.dlp.principal = dlp.principal + margin
                /\ run.lamports.dlp = lamports.dlp + margin
                /\ run.user.pnl = user.pnl /\ run.dlp.pnl = dlp.pnl
                /\ run.last.pnl = 0
                /\ new.total_qty = old_qty + SignedBySide(req.side, q)

\* The leverages a request may carry: the field is a byte that is not
\* validated, so zero and one stand beside the values traded with.
AnyLeverages == Leverages \cup {0, 1}

\* C18: for a request whose fill is a Reduce, the outcome of the execute (the
\* result, both portfolios, the balances, the records, the venues and the
\* registry) is the same whatever leverage the request carries.
C18_ReduceIgnoresLeverage ==
    \A req \in TradeRequests : \A l \in AnyLeverages :
        LET run == ExecuteRun(req, MaxExposure)
            other == ExecuteRun([req EXCEPT !.leverage = l], MaxExposure)
        IN  (run.err = "Ok" /\ run.last.kind = "Reduce") => other = run

C18_Witness == ExecuteDone /\ last.kind = "Reduce" /\ positions[LastIdx].exists

\* ------------------------------------------------------------ venue calls
\* commit_fill called on the venues directly, by the router authority or by
\* another signer, with any fence, quantity and price.
MaxSeqno == 3
Signers == {RouterAuthority, "mallory"}
\* The router-signer account of the instruction: its key, and whether the
\* instruction carries its signature.
SignerAccounts ==
    {[key |-> RouterAuthority, is_signer |-> TRUE], [key |-> RouterAuthority, is_signer |-> FALSE]}
    \cup [key : Signers \ {RouterAuthority}, is_signer : {TRUE}]
Fences == 0..MaxSeqno
FillQuantities == {0, 1, 2}
FillPrices == {0, 500000000}

\* The fences each venue accepted so far (history kept beside the last call).
Accepted == IF last.op = "commit_fill" THEN last.accepted ELSE [v \in Venues |-> {}]

\* One CommitFill instruction: process_commit_fill with the venue's state and
\* its receipt account; an error leaves both as they were.
CommitFill(v, router_signer, expected_seqno, side, qty, limit_px) ==
    /\ slabs[v].seqno < MaxSeqno
    /\ \E err \in {CommitFillError(slabs[v], router_signer.key, expected_seqno, qty, limit_px)} :
        /\ IF err = "Ok"
           THEN \E fill \in {process_commit_fill(slabs[v], side, qty, limit_px)} :
                   /\ slabs' = [slabs EXCEPT ![v] = fill.slab]
                   /\ receipts' = [receipts EXCEPT ![v] = fill.receipt]
           ELSE UNCHANGED <<slabs, receipts>>
        /\ last' = [op |-> "commit_fill", result |-> err, venue |-> v,
                    signer |-> router_signer.key, is_signer |-> router_signer.is_signer,
                    fence |-> expected_seqno,
                    side |-> side, qty |-> qty, px |-> limit_px,
                    accepted |-> IF err = "Ok"
                                 THEN [Accepted EXCEPT ![v] = @ \cup {expected_seqno}]
                                 ELSE Accepted]
    /\ UNCHANGED <<user, dlp, lamports, positions, registry, clock, probe>>

NextVenue ==
    \E v \in Venues, s \in SignerAccounts, f \in Fences, side \in Sides,
       q \in FillQuantities, px \in FillPrices : CommitFill(v, s, f, side, q, px)

SpecVenue == Init /\ [][NextVenue]_vars

C20_FenceAcceptedAtMostOnce ==
    [][last'.op = "commit_fill" =>
        LET v == last'.venue
        IN  /\ \A o \in Venues : slabs'[o].seqno >= slabs[o].seqno
            /\ \A o \in Venues \ {v} : slabs'[o].seqno = slabs[o].seqno
            /\ IF last'.result = "Ok"
               THEN /\ slabs'[v].seqno = slabs[v].seqno + 1
                    /\ receipts'[v].used
                    /\ receipts'[v].seqno_committed = slabs[v].seqno
                    /\ last'.fence = slabs[v].seqno
                    /\ last'.fence \notin Accepted[v]
               ELSE slabs'[v].seqno = slabs[v].seqno]_vars

C20_Witness ==
    /\ last.op = "commit_fill" /\ last.result = "Ok"
    /\ Cardinality(last.accepted[last.venue]) = MaxSeqno
    /\ receipts[last.venue].seqno_committed = MaxSeqno - 1

\* ---------------------------------------------------------------- requests
\* Executes on requests of every shape: the well-formed ones, and each of
\* them with one input replaced (another caller, another authority account,
\* a split count other than one, an unknown order type, a leverage outside
\* 1..10 or too high for the deposit, a slab account of another program).
MaxRequestExposure == 3
ForeignSlab == "noopSlab"
RequestQuantities == {1, 2}
WellFormedRequests ==
    [venue : {"slabA"}, receipt : {"slabA"}, caller : {Owner}, authority : {RouterAuthority},
     nslabs : {V0_SLABS}, order_type : {0, 1}, side : Sides, qty : RequestQuantities,
     limit_px : LimitPrices, oracle_px : {1050000}, leverage : {10}]
\* The requests that are varied: buys of one unit.
PlainRequests == {r \in WellFormedRequests : r.side = 0 /\ r.qty = 1}
SplitCounts == {0, 2, 8, 9}
OddLeverages == {0, 1, 2, 11}
AnyRequests ==
    WellFormedRequests
    \cup {[r EXCEPT !.caller = "mallory"] : r \in PlainRequests}
    \cup {[r EXCEPT !.authority = "other_pda"] : r \in PlainRequests}
    \cup {[r EXCEPT !.nslabs = n] : r \in PlainRequests, n \in SplitCounts}
    \cup {[r EXCEPT !.order_type = 2] : r \in PlainRequests}
    \cup {[r EXCEPT !.leverage = l] : r \in PlainRequests, l \in OddLeverages}
    \cup {[r EXCEPT !.venue = ForeignSlab] : r \in PlainRequests}

\* A faulty Submit: the writes made before an error stay.
SubmitKeepsWrites(req) ==
    \E run \in {ExecuteRun(req, MaxRequestExposure)} :
        /\ run.exposure_ok
        /\ user' = run.user
        /\ dlp' = run.dlp
        /\ lamports' = run.lamports
        /\ positions' = run.positions
        /\ slabs' = run.slabs
        /\ receipts' = run.receipts
        /\ registry' = run.registry
        /\ last' = [op |-> "execute", result |-> run.err, req |-> req]
        /\ UNCHANGED <<clock, probe>>

\* The ExecuteCrossSlab instruction, keeping the request beside its result.
Submit(req) ==
    \E run \in {ExecuteRun(req, MaxRequestExposure)} :
        /\ run.exposure_ok
        /\ IF run.err = "Ok"
           THEN /\ user' = run.user
                /\ dlp' = run.dlp
                /\ lamports' = run.lamports
                /\ positions' = run.positions
                /\ slabs' = run.slabs
                /\ receipts' = run.receipts
                /\ registry' = run.registry
           ELSE UNCHANGED <<user, dlp, lamports, positions, slabs, receipts, registry>>
        /\ last' = [op |-> "execute", result |-> run.err, req |-> req]
        /\ UNCHANGED <<clock, probe>>

NextRequests == \E req \in AnyRequests : Submit(req)

SpecRequests == Init /\ [][NextRequests]_vars

\* C21: a successful execute applied a receipt that the venue wrote during
\* that execute (the venue's sequence number advanced and the receipt holds
\* the number it advanced from), and an execute whose venue call wrote no
\* receipt returns the invalid-receipt error.
C21_ReceiptAppliedOnce ==
    /\ [][(last'.op = "execute" /\ last'.result = "Ok") =>
            LET q == last'.req
            IN  /\ q.venue \in Venues
                /\ slabs'[q.venue].seqno = slabs[q.venue].seqno + 1
                /\ receipts'[q.receipt].used
                /\ receipts'[q.receipt].seqno_committed = slabs[q.venue].seqno]_vars
    /\ [](\A req \in AnyRequests :
            LET run == ExecuteRun(req, MaxRequestExposure)
            IN  (run.venue_called /\ req.venue \notin Venues) => run.err = "InvalidReceipt")

\* A limit price more than 20% away from the oracle price.
OutsideBand(limit_px, oracle_px) ==
    \/ limit_px * 5 < oracle_px * 4
    \/ limit_px * 5 > oracle_px * 6

\* The request passes the identity, split-count, order-type and authority
\* checks that come before the price check.
PassesEarlierChecks(req) ==
    /\ req.caller = user.user
    /\ req.nslabs = V0_SLABS
    /\ req.order_type <= 1
    /\ req.authority = RouterAuthority

\* C22 as stated: a limit order whose limit price is outside the band fails
\* with the price error, and no venue sequence number advances and no receipt
\* is written.
C22_OutOfBandIsPriceError ==
    [][(last'.op = "execute" /\ last'.req.order_type = 1
          /\ OutsideBand(last'.req.limit_px, last'.req.oracle_px)) =>
            /\ last'.result = "InvalidPrice"
            /\ slabs' = slabs /\ receipts' = receipts]_vars

\* C22, amended: such an execute fails before any venue call (no sequence
\* number advances, no receipt is written), with the price error when the
\* request passes the checks that come first and with their error otherwise.
C22_OutOfBandFailsBeforeVenue ==
    /\ [](\A req \in AnyRequests :
            LET run == ExecuteRun(req, MaxRequestExposure)
            IN  (req.order_type = 1 /\ OutsideBand(req.limit_px, req.oracle_px)) =>
                    /\ ~run.venue_called
                    /\ run.err # "Ok"
                    /\ run.slabs = slabs /\ run.receipts = receipts
                    /\ PassesEarlierChecks(req) => run.err = "InvalidPrice")
    /\ [][(last'.op = "execute" /\ last'.req.order_type = 1
             /\ OutsideBand(last'.req.limit_px, last'.req.oracle_px)) =>
               /\ last'.result # "Ok"
               /\ slabs' = slabs /\ receipts' = receipts]_vars

C22_Witness ==
    /\ last.op = "execute" /\ last.result = "InvalidPrice"
    /\ last.req.order_type = 1 /\ OutsideBand(last.req.limit_px, last.req.oracle_px)
    /\ slabs["slabA"].seqno > 0

ExecuteErrors ==
    {"InvalidPortfolio", "InvalidInstruction", "InvalidOrderType", "InvalidAccount",
     "InvalidPrice", "InvalidReceipt", "InsufficientFunds", "PortfolioInsufficientMargin",
     "Unauthorized", "SeqnoMismatch", "InvalidQuantity", "Panic"}

MAX_SPLITS == 8

\* C25: a request with 1 to 8 splits is not rejected as malformed, and a
\* request with 0 or more than 8 splits is.
C25_OneToEightSplitsAccepted ==
    \A req \in AnyRequests :
        LET run == ExecuteRun(req, MaxRequestExposure)
        IN  req.caller = user.user =>
                IF req.nslabs \in 1..MAX_SPLITS
                THEN run.err # "InvalidInstruction"
                ELSE run.err = "InvalidInstruction"

\* The leverages the spec supports.
SupportedLeverages == 1..10

\* C26: every Position Record's leverage is within 1..10, and an execute
\* whose leverage is outside that range creates or changes no record and
\* moves no collateral.
C26_LeverageInRange ==
    /\ [](\A i \in SlabIndexes : positions[i].exists => positions[i].leverage \in SupportedLeverages)
    /\ [][(last'.op = "execute" /\ last'.req.leverage \notin SupportedLeverages) =>
            /\ positions' = positions
            /\ lamports' = lamports]_vars

\* C27 as stated: a commit_fill whose quantity is not positive returns the
\* invalid-quantity error, one whose price is not positive the invalid-price
\* error, and both leave the sequence number, the quote cache and the
\* receipt as they were.
C27_NonPositiveInputsRejected ==
    [][last'.op = "commit_fill" =>
         /\ last'.qty <= 0 =>
               /\ last'.result = "InvalidQuantity"
               /\ slabs' = slabs /\ receipts' = receipts
         /\ last'.px <= 0 =>
               /\ last'.result = "InvalidPrice"
               /\ slabs' = slabs /\ receipts' = receipts]_vars

\* C27, amended: a commit_fill whose quantity or price is not positive is
\* rejected and leaves the sequence number, the quote cache and the receipt
\* as they were.  From the router authority with the current fence, the error
\* is the invalid-quantity error when the quantity is not positive and the
\* invalid-price error when the quantity is positive and the price is not.
C27_NonPositiveInputsRejectedInOrder ==
    [][(last'.op = "commit_fill" /\ (last'.qty <= 0 \/ last'.px <= 0)) =>
         LET v == last'.venue
             reaches == last'.signer = slabs[v].router_id /\ last'.fence = slabs[v].seqno
         IN  /\ last'.result # "Ok"
             /\ slabs'[v].seqno = slabs[v].seqno
             /\ slabs'[v].quote_cache = slabs[v].quote_cache
             /\ receipts'[v] = receipts[v]
             /\ slabs' = slabs /\ receipts' = receipts
             /\ (reaches /\ last'.qty <= 0) => last'.result = "InvalidQuantity"
             /\ (reaches /\ last'.qty > 0) => last'.result = "InvalidPrice"]_vars

C27_Witness ==
    /\ last.op = "commit_fill" /\ last.result = "InvalidPrice"
    /\ last.qty > 0 /\ last.px <= 0
    /\ slabs[last.venue].seqno > 0 /\ receipts[last.venue].used

\* C28: a successful execute on a venue that is not in the registry appends
\* the venue to the registry with bounded margin ratios, zero maker and taker
\* fee caps and no exposure limit, and keys the Position Record by the index
\* that registration assigned; a well-formed request is never refused because
\* its venue is unregistered.
C28_AutoRegistersConservatively ==
    /\ [][(last'.op = "execute" /\ last'.result = "Ok" /\ find_slab(registry, last'.venue) = -1) =>
            LET idx == Len(registry.slabs)
                entry == registry'.slabs[idx + 1]
            IN  /\ Len(registry'.slabs) = idx + 1
                /\ \A k \in 1..idx : registry'.slabs[k] = registry.slabs[k]
                /\ entry.slab_id = last'.venue
                /\ find_slab(registry', last'.venue) = idx
                /\ 0 < entry.mmr /\ entry.mmr <= entry.imr /\ entry.imr <= BPS_DENOM
                /\ entry.maker_fee_cap = 0
                /\ entry.taker_fee_cap = 0
                /\ entry.max_exposure = NoExposureLimit
                /\ positions'[idx].exists /\ positions'[idx].slab_index = idx
                /\ user'.exposures[idx] # 0]_vars
    /\ [](\A req \in TradeRequests :
            LET run == ExecuteRun(req, MaxExposure)
            IN  (find_slab(registry, req.venue) = -1 /\ run.venue_called)
                    => run.err \in {"Ok", "InsufficientFunds", "PortfolioInsufficientMargin"})

\* C29: a successful execute accrues insurance on the taker notional of the
\* fill, |filled quantity| x the price the venue filled at, for market and
\* limit orders alike.
C29_InsuranceOnFilledNotional ==
    \A req \in TradeRequests :
        LET run == ExecuteRun(req, MaxExposure)
            receipt == run.receipts[req.receipt]
            filled_notional == (Abs(receipt.filled_qty) * receipt.vwap_px) \div PRICE_SCALE
        IN  run.err = "Ok" =>
                run.registry.insurance =
                    IF filled_notional > 0
                    THEN accrue_from_fill(registry, filled_notional).insurance
                    ELSE registry.insurance

\* ---------------------------------------------------------------- transfers
\* The three collateral moves of the execute applied on their own, with
\* amounts below, at and above what the paying side holds.  An error aborts
\* the transaction.
MaxBooked == 1400
TransferAmounts == {0, 100, 300, 700}
PnlAmounts == {-700, -300, -100, 100, 300, 700}

Transfer(op, amount, w) ==
    /\ Abs(user.pnl) <= MaxBooked /\ Abs(user.principal) <= MaxBooked
    /\ IF w.err = "Ok"
       THEN user' = w.user /\ dlp' = w.dlp /\ lamports' = w.lamports
       ELSE UNCHANGED <<user, dlp, lamports>>
    /\ last' = [op |-> op, result |-> w.err, amount |-> amount]
    /\ UNCHANGED <<positions, slabs, receipts, registry, clock, probe>>

PostMargin(margin) ==
    Transfer("transfer_collateral_margin", margin,
             transfer_collateral_margin(Books(user, dlp, lamports), margin))

ReturnMargin(margin) ==
    Transfer("return_margin_to_user", margin,
             return_margin_to_user(Books(user, dlp, lamports), margin))

SettlePnl(realized_pnl) ==
    Transfer("settle_pnl", realized_pnl, settle_pnl(Books(user, dlp, lamports), realized_pnl))

NextTransfers ==
    \/ \E m \in TransferAmounts : PostMargin(m)
    \/ \E m \in TransferAmounts : ReturnMargin(m)
    \/ \E p \in PnlAmounts : SettlePnl(p)

SpecTransfers == Init /\ [][NextTransfers]_vars

\* What the paying side of the transfer holds: the trader for margin posting
\* and losses, the counterparty for margin return and profits.
PayerBalance(op, amount) ==
    IF op = "transfer_collateral_margin" \/ (op = "settle_pnl" /\ amount < 0)
    THEN lamports.user ELSE lamports.dlp

MaxClock == 3
MaxVestingExposure == 5
VestingRequests ==
    [venue : {"slabA"}, receipt : {"slabA"}, caller : {Owner}, authority : {RouterAuthority},
     nslabs : {V0_SLABS}, order_type : {0}, side : Sides, qty : {1, 2},
     limit_px : {1050000}, oracle_px : OraclePrices, leverage : {5}]

\* The cluster clock moves on by one slot.
Tick ==
    /\ clock < MaxClock
    /\ clock' = clock + 1
    /\ UNCHANGED <<user, dlp, lamports, positions, slabs, receipts, registry, last, probe>>

NextVesting ==
    \/ \E req \in VestingRequests : Execute(req, MaxVestingExposure)
    \/ Tick

SpecVesting == Init /\ [][NextVesting]_vars

\* C31: a successful execute leaves the portfolio's vesting state as the
\* vesting touch at the current slot makes it from the state before the call,
\* with this trade's realized PnL added after the touch, and its equity is the
\* equity before the call changed by this trade's margin transfers and PnL,
\* which the acceptance check found to cover the recomputed maintenance
\* margin; every execute that reaches the acceptance check with less is
\* rejected there.
C31_TouchFirstAcceptanceLast ==
    /\ [][(last'.op = "execute" /\ last'.result = "Ok" /\ clock' = clock) =>
            LET touched == on_user_touch(user, registry.global_haircut, clock)
            IN  /\ user'.last_slot = clock
                /\ user'.vested_pnl = touched.vested_pnl
                /\ user'.pnl_index_checkpoint = touched.pnl_index_checkpoint
                /\ user'.pnl = touched.pnl + last'.pnl
                /\ user'.equity = user.equity - last'.added + last'.released + last'.pnl
                /\ user'.equity >= user'.mm]_vars
    /\ [](\A req \in VestingRequests :
            LET run == ExecuteRun(req, MaxVestingExposure)
            IN  /\ (run.reached_acceptance /\ run.user.equity < run.user.mm)
                       => run.err = "PortfolioInsufficientMargin"
                /\ run.err = "PortfolioInsufficientMargin" => run.reached_acceptance)

C31_Witness ==
    /\ ExecuteDone /\ last.pnl > 0
    /\ user.vested_pnl > 0 /\ user.pnl > 0
    /\ user.last_slot = clock /\ clock > 0

\* ----------------------------------------------------------- initialization
\* The registry account under the Initialize instruction. In this
\* specification `registry` is the registry account (lamports, allocation,
\* and the fields initialize_in_place writes) and `lamports` the payers'
\* wallets.
RegistryPda == "registry_pda"
ZeroKey == "Pubkey::default"
InitPayers == {"alice", "bob"}
Governances == {ZeroKey, "gov1", "gov2"}
RegistryKeys == {RegistryPda, "other_account"}
MaxRegisteredSlabs == 2

\* An account that holds no registry yet: unfunded, funded by the client,
\* allocated at the registry's size but zeroed, or left over with another size.
UnsetRegistry(lamps, len) ==
    [lamports |-> lamps, data_len |-> len, router_id |-> ZeroKey,
     governance |-> ZeroKey, slab_count |-> 0]

UnsetRegistries ==
    {UnsetRegistry(0, "empty"), UnsetRegistry(RentLamports, "empty"),
     UnsetRegistry(RentLamports, "LEN"), UnsetRegistry(RentLamports, "other")}

\* SlabRegistry::initialize_in_place: a fresh registry owned by `governance`.
initialize_in_place(acct, router_id, governance) ==
    [acct EXCEPT !.data_len = "LEN", !.router_id = router_id,
                 !.governance = governance, !.slab_count = 0]

\* A faulty initialization test that never finds the registry initialized.
IsInitializedNever(acct) == FALSE

\* The account is allocated at the registry's size and its first 32 bytes
\* (the router id) are not all zero.
IsInitialized(acct) == acct.data_len = "LEN" /\ acct.router_id # ZeroKey

\* process_initialize_registry on the account with key `key`: the outcome,
\* the account and the wallets after it.
process_initialize_registry(acct, wallets, key, payer, payer_signs, governance) ==
    LET fail(e) == [err |-> e, registry |-> acct, lamports |-> wallets]
        done(a, w) == [err |-> "Ok",
                       registry |-> initialize_in_place(a, RegistryPda, governance),
                       lamports |-> w]
    IN  IF key # RegistryPda THEN fail("InvalidAccount")
        ELSE IF ~payer_signs THEN fail("Unauthorized")
        ELSE IF governance = ZeroKey THEN fail("InvalidAccount")
        ELSE IF acct.data_len = "LEN"
             THEN IF IsInitialized(acct) THEN fail("AlreadyInitialized")
                  ELSE done(acct, wallets)
        ELSE IF acct.lamports > 0 /\ acct.data_len = "empty"
             THEN done(acct, wallets)
        ELSE IF acct.lamports = 0
             THEN IF wallets[payer] < RentLamports THEN fail("InvalidAccount")
                  ELSE done([acct EXCEPT !.lamports = RentLamports],
                            [wallets EXCEPT ![payer] = @ - RentLamports])
        ELSE fail("InvalidAccount")

InitRegistry ==
    /\ registry \in UnsetRegistries
    /\ lamports = [p \in InitPayers |-> IF p = "alice" THEN RentLamports ELSE 0]
    /\ last = [op |-> "none"]
    /\ clock = 0
    /\ user = 0 /\ dlp = 0 /\ positions = <<>> /\ slabs = <<>> /\ receipts = <<>>
    /\ probe = ProbeIdle

\* The Initialize instruction.
Initialize(key, payer, payer_signs, governance) ==
    \E run \in {process_initialize_registry(registry, lamports, key, payer, payer_signs, governance)} :
        /\ registry' = run.registry
        /\ lamports' = run.lamports
        /\ last' = [op |-> "initialize", result |-> run.err, key |-> key, payer |-> payer,
                    payer_signs |-> payer_signs, governance |-> governance]
        /\ UNCHANGED <<user, dlp, positions, slabs, receipts, clock, probe>>

\* A venue is registered in the initialized registry.
RegisterSlab ==
    /\ IsInitialized(registry)
    /\ registry.slab_count < MaxRegisteredSlabs
    /\ registry' = [registry EXCEPT !.slab_count = @ + 1]
    /\ last' = [op |-> "register_slab"]
    /\ UNCHANGED <<user, dlp, lamports, positions, slabs, receipts, clock, probe>>

NextRegistry ==
    \/ \E key \in RegistryKeys, payer \in InitPayers, payer_signs \in BOOLEAN,
          governance \in Governances : Initialize(key, payer, payer_signs, governance)
    \/ RegisterSlab

SpecRegistry == InitRegistry /\ [][NextRegistry]_vars

\* C32, as stated: once the registry is initialized, every later Initialize
\* fails as a duplicate initialization and leaves the registry unchanged.
C32_ReinitializeIsDuplicate ==
    [][(registry.governance # ZeroKey /\ last'.op = "initialize") =>
          /\ last'.result = "AlreadyInitialized"
          /\ registry' = registry]_vars

\* C32, amended: once the registry is initialized, every later Initialize
\* fails and leaves the registry and the wallets unchanged; it fails as a
\* duplicate initialization when the account is the registry PDA, the payer
\* signs and the governance key is not the zero key, and otherwise with the
\* error of the first of those checks that fails.
C32_ReinitializeFails ==
    [][(registry.governance # ZeroKey /\ last'.op = "initialize") =>
          /\ last'.result # "Ok"
          /\ registry' = registry
          /\ lamports' = lamports
          /\ last'.result =
                IF last'.key # RegistryPda THEN "InvalidAccount"
                ELSE IF ~last'.payer_signs THEN "Unauthorized"
                ELSE IF last'.governance = ZeroKey THEN "InvalidAccount"
                ELSE "AlreadyInitialized"]_vars

C32_Witness ==
    /\ last.op = "initialize" /\ last.result = "AlreadyInitialized"
    /\ registry.slab_count > 0
    /\ registry.governance = "gov1" /\ last.governance = "gov2"

\* --------------------------------------------------- accounts of the venue call
\* An account passed with an instruction: what it is, and whether the
\* instruction may write it.
AccountMeta(kind, id, writable) == [kind |-> kind, id |-> id, writable |-> writable]

\* The account list execute builds for the venue call, in the order of its
\* account metas.
CpiAccountMetas(req) ==
    << AccountMeta("slab", req.venue, TRUE),
       AccountMeta("authority", req.authority, FALSE),
       AccountMeta("oracle", req.venue, FALSE),
       AccountMeta("receipt", req.receipt, TRUE) >>

\* The roles the venue's entry point gives the accounts it is called with,
\* by position.
CommitFillAccounts(accounts) ==
    [slab_account    |-> accounts[1],
     receipt_account |-> accounts[2],
     router_signer   |-> accounts[3],
     oracle_account  |-> accounts[4]]

\* C33: in every execute that calls the venue, the account the venue
\* compares with its router id is the router authority of the execute, and
\* the receipt account the venue writes is the writable receipt account the
\* execute reads the fill from.
C33_VenueCallRolesAgree ==
    \A req \in TradeRequests :
        LET run == ExecuteRun(req, MaxExposure)
            seen == CommitFillAccounts(CpiAccountMetas(req))
        IN  run.venue_called =>
                /\ seen.router_signer = AccountMeta("authority", req.authority, FALSE)
                /\ seen.receipt_account = AccountMeta("receipt", req.receipt, TRUE)

\* C34: a commit_fill whose router-signer account has another key than the
\* venue's router id, or has that key but does not sign, is rejected as
\* unauthorized and changes neither the venue nor the receipt.
C34_OnlyRouterSignature ==
    [][(/\ last'.op = "commit_fill"
        /\ (last'.signer # slabs[last'.venue].router_id \/ ~last'.is_signer)) =>
          /\ last'.result = "Unauthorized"
          /\ slabs' = slabs /\ receipts' = receipts]_vars

\* C35: a successful commit_fill leaves in the receipt account a used receipt
\* with the requested quantity as filled quantity, the requested price as VWAP,
\* notional quantity x price / 1e6 and fee notional x taker fee bps / 10000.
C35_ReceiptOfFill ==
    [][(last'.op = "commit_fill" /\ last'.result = "Ok") =>
          LET r == receipts'[last'.venue]
              notional == (last'.qty * last'.px) \div PRICE_SCALE
          IN  /\ r.used
              /\ r.filled_qty = last'.qty
              /\ r.vwap_px = last'.px
              /\ r.notional = notional
              /\ r.fee = (notional * slabs[last'.venue].taker_fee_bps) \div BPS_DENOM
              /\ r.seqno_committed = slabs[last'.venue].seqno]_vars

C35_Witness ==
    /\ last.op = "commit_fill" /\ last.result = "Ok"
    /\ receipts[last.venue].used
    /\ receipts[last.venue].filled_qty = 2
    /\ receipts[last.venue].notional = 1000
    /\ receipts[last.venue].fee = 1

\* --------------------------------------------------------------------- fees
\* Market orders at a price high enough for the venue's taker fee to be
\* non-zero (the margin of a fill does not depend on its price).
MaxFeeExposure == 2
FeeRequests ==
    {req \in [venue : Venues, receipt : Venues, caller : {Owner}, authority : {RouterAuthority},
               nslabs : {V0_SLABS}, order_type : {0}, side : Sides, qty : {2},
               limit_px : {50000}, oracle_px : {500000000}, leverage : {5, 10}] :
        req.receipt = req.venue}

NextFees ==
    \/ \E req \in FeeRequests : Execute(req, MaxFeeExposure)
    \/ Tick

SpecFees == Init /\ [][NextFees]_vars

\* C36: the total_fees of a Position Record is the sum of the fees the
\* receipts reported for the fills applied to it: the fee of the creating
\* fill when the record is created, and the fee of every later fill added.
C36_TotalFeesSumReceiptFees ==
    [][(last'.op = "execute" /\ last'.result = "Ok" /\ clock' = clock) =>
          LET i == find_slab(registry', last'.venue)
              fee == receipts'[last'.venue].fee
          IN  positions'[i].exists =>
                  positions'[i].total_fees =
                      IF positions[i].exists /\ last'.kind # "Reverse"
                      THEN positions[i].total_fees + fee
                      ELSE fee]_vars

\* C37: the trade_count of a Position Record is the number of fills applied to
\* it: 1 after the fill that creates it, and one more after every later fill.
C37_TradeCountCountsFills ==
    [][(last'.op = "execute" /\ last'.result = "Ok") =>
          LET i == find_slab(registry', last'.venue)
          IN  positions'[i].exists =>
                  positions'[i].trade_count =
                      IF positions[i].exists /\ last'.kind # "Reverse"
                      THEN positions[i].trade_count + 1
                      ELSE 1]_vars

\* The margin_held of the existing Position Records, summed.
MarginHeldTotal ==
    LET RECURSIVE sum(_)
        sum(S) == IF S = {} THEN 0
                  ELSE LET i == CHOOSE x \in S : TRUE
                       IN  (IF positions[i].exists THEN positions[i].margin_held ELSE 0)
                           + sum(S \ {i})
    IN  sum(SlabIndexes)

\* C38: the collateral the counterparty pool holds as margin, i.e. what was
\* transferred to it as margin minus what it returned, equals the sum of
\* margin_held over the Position Records that exist.
C38_PoolMarginIsMarginHeld == dlp.principal = MarginHeldTotal


\* C39: an execute that reduces a position and leaves a non-zero remainder
\* changes in the Position Record only total_qty, realized_pnl, total_fees,
\* trade_count, last_update_ts and margin_held; the average entry price, the
\* leverage and the key fields stay as they were, the magnitude of total_qty
\* does not grow and its sign does not flip.
C39_ReduceFrame ==
    [][(last'.op = "execute" /\ last'.result = "Ok" /\ last'.kind = "Reduce") =>
          LET i == find_slab(registry', last'.venue)
              b == positions[i]
              a == positions'[i]
          IN  a.exists =>
                  /\ b.exists
                  /\ [a EXCEPT !.total_qty = b.total_qty,
                               !.realized_pnl = b.realized_pnl,
                               !.total_fees = b.total_fees,
                               !.trade_count = b.trade_count,
                               !.last_update_ts = b.last_update_ts,
                               !.margin_held = b.margin_held] = b
                  /\ a.avg_entry_price = b.avg_entry_price
                  /\ a.leverage = b.leverage
                  /\ a.slab_index = b.slab_index
                  /\ a.instrument_index = b.instrument_index
                  /\ Abs(a.total_qty) <= Abs(b.total_qty)
                  /\ a.total_qty # 0
                  /\ (a.total_qty > 0) = (b.total_qty > 0)]_vars

C39_Witness ==
    /\ ExecuteDone /\ last.kind = "Reduce"
    /\ positions[LastIdx].exists
    /\ positions[LastIdx].total_qty # 0
    /\ positions[LastIdx].avg_entry_price # last.px
    /\ positions[LastIdx].trade_count > 2


====
